---- MODULE Spec2Model ----
(***************************************************************************)
(* Real-Time Leaderboard: the in-memory RankManager histogram              *)
(* (rank_manager.go) and the handlers of main.go that keep it in step with *)
(* the users table of Postgres: the asynchronous warm-up goroutine of      *)
(* main(), SeedUsers/insertBatch, and SimulateScoreUpdate.                 *)
(*                                                                         *)
(* The histogram [5001]int32 is kept on the slots the model's ratings can  *)
(* address (Slots); every other slot of the array is never written by any  *)
(* call the model makes and holds 0 throughout, so the scan of GetRank     *)
(* steps from one addressed slot to the next.                              *)
(***************************************************************************)
EXTENDS Integers, Sequences, FiniteSets, TLC

\* ------------------------------------------------------------- bounds
\* usernames user_0 .. user_(NumUsers-1); SeedUsers seeds this many
NumUsers == 2
\* POST /simulate requests served in one run, each by its own goroutine
NumReq == 2
\* batchSize of SeedUsers
BatchSize == 2
\* longest ratings slice handed to BulkLoad in TableSpec
MaxBatch == 3
\* number of direct RankManager calls in one run of TableSpec
MaxCalls == 2
\* UpdateUserRating calls, each by its own goroutine, in one run of LockSpec
NumWriters == 2
\* GetRank calls, each by its own goroutine, in one run of LockSpec
NumReaders == 2

\* -------------------------------------------------- program constants
\* GetRank: if rating > 5000; the upper end of all three range tests
MaxRating == 5000
\* UpdateUserRating / BulkLoad: rating >= 100
MinRating == 100
\* GetRank: if rating < 0 { rating = 0 }
RankFloor == 0
\* UpdateUserRating(-1, r): "just increment"
NoPrior == -1
\* SeedUsers: r := 100 + (i % 4900)
SeedBase == 100
SeedSpread == 4900

Names == 0 .. (NumUsers - 1)
Reqs == 1 .. NumReq
\* goroutines calling UpdateUserRating, and GetRank calls, of LockSpec
Writers == 1 .. NumWriters
Readers == 1 .. NumReaders

\* ratings the rows of a database that already holds users start with
InitRatings == {100}
\* new_rating values of POST /simulate: below the counted floor, counted,
\* above the ceiling (BindJSON accepts any int)
NewRatings == {50, 150, 5001}
SeedRatings == {SeedBase + (i % SeedSpread) : i \in Names}
\* ratings of the direct calls of TableSpec
LoadRatings == {100, 200}
DeltaRatings == {NoPrior, 100, 300}
\* ratings asked of GetRank
QueryScores ==
    InitRatings \cup NewRatings \cup SeedRatings \cup LoadRatings
        \cup DeltaRatings \cup {-7, 0, 99, 5000}

\* the slots of histogram [5001]int32 that some rating of the model addresses
Slots ==
    {s \in InitRatings \cup NewRatings \cup SeedRatings \cup LoadRatings \cup DeltaRatings :
        0 <= s /\ s <= MaxRating}

VARIABLES
    usersTbl,   \* table users: usersTbl[u] = <<rating>>, or <<>> for no row
    rowLock,    \* rowLock[u]: the request whose transaction holds the row lock, 0 if none
    histogram,  \* RankManager.histogram
    req,        \* req[r]: one SimulateScoreUpdate call: its place and its locals
    warm,       \* the warm-up goroutine of main(): its place and its locals
    contrib,    \* history: contrib[u][s], net count the histogram got on behalf of user u
    commits,    \* history: the writes committed, [req, user, old, new]
    deltas,     \* history: the writes applied to the histogram by SimulateScoreUpdate
    contended,  \* history: the users two overlapping requests committed different ratings for
    calls,      \* history of TableSpec: the RankManager calls made so far
    mu,         \* RankManager.mu: the goroutine holding Lock (0 if none), those holding RLock
    wr,         \* wr[w]: one goroutine inside UpdateUserRating: its place and its arguments
    rd,         \* rd[k]: one GetRank call: its place, its argument and its locals r, rank
    versions,   \* history of LockSpec: the histogram after each finished UpdateUserRating
    lst         \* one GetLeaderboard or SearchUser call: its place, its rows, its response

\* the state of the mutex and of the calls that run under it
lockVars == <<mu, wr, rd, versions>>

vars == <<usersTbl, rowLock, histogram, req, warm, contrib, commits, deltas, contended, calls,
          lockVars, lst>>

\* ---------------------------------------------------------- RankManager

\* InitRankManager: &RankManager{}
EmptyHistogram == [s \in Slots |-> 0]

InRange(r) == r >= MinRating /\ r <= MaxRating

\* the next addressed slot at or after r; past the array when there is none
NextSlot(r) ==
    LET ahead == {s \in Slots : s >= r}
    IN  IF ahead = {} THEN MaxRating + 1
        ELSE CHOOSE s \in ahead : \A t \in ahead : s <= t

\* for r := rating + 1; r <= 5000; r++ { rank += int64(rm.histogram[r]) }
RECURSIVE ScanFrom(_, _, _)
ScanFrom(h, r, rank) ==
    LET n == NextSlot(r)
    IN  IF n > MaxRating THEN rank
        ELSE ScanFrom(h, n + 1, rank + h[n])

GetRank_offByOne(h, rating) ==
    IF rating > MaxRating THEN 1
    ELSE ScanFrom(h, (IF rating < RankFloor THEN RankFloor ELSE rating), 1)

GetRank(h, rating) ==
    IF rating > MaxRating THEN 1
    ELSE ScanFrom(h, (IF rating < RankFloor THEN RankFloor ELSE rating) + 1, 1)

\* a decrement whose range test starts at the floor of GetRank
Decrement_fromZero(h, r) ==
    IF r >= RankFloor /\ r <= MaxRating THEN [h EXCEPT ![r] = @ - 1] ELSE h

\* if oldRating >= 100 && oldRating <= 5000 { rm.histogram[oldRating]-- }
Decrement(h, r) == IF InRange(r) THEN [h EXCEPT ![r] = @ - 1] ELSE h

\* if newRating >= 100 && newRating <= 5000 { rm.histogram[newRating]++ }
Increment(h, r) == IF InRange(r) THEN [h EXCEPT ![r] = @ + 1] ELSE h

\* UpdateUserRating with a decrement that stops at zero
UpdateUserRating_clamped(h, oldRating, newRating) ==
    Increment((IF InRange(oldRating) /\ h[oldRating] = 0 THEN h ELSE Decrement(h, oldRating)),
              newRating)

\* under rm.mu.Lock(): the decrement, then the increment
UpdateUserRating(h, oldRating, newRating) ==
    Increment(Decrement(h, oldRating), newRating)

\* a BulkLoad whose range test starts at the floor of GetRank
RECURSIVE BulkLoad_fromZero(_, _)
BulkLoad_fromZero(h, ratings) ==
    IF ratings = <<>> THEN h
    ELSE LET r == Head(ratings)
         IN  BulkLoad_fromZero((IF r >= RankFloor /\ r <= MaxRating
                                THEN [h EXCEPT ![r] = @ + 1] ELSE h),
                               Tail(ratings))

\* under rm.mu.Lock(): for _, r := range ratings { if in range { histogram[r]++ } }
RECURSIVE BulkLoad(_, _)
BulkLoad(h, ratings) ==
    IF ratings = <<>> THEN h
    ELSE BulkLoad(Increment(h, Head(ratings)), Tail(ratings))

\* ------------------------------------------------------ the users table

HasRow(tbl, u) == tbl[u] # <<>>

\* SELECT count(*) FROM users
CountRows(tbl) == Cardinality({u \in Names : HasRow(tbl, u)})

\* SELECT rating FROM users: the rows of one snapshot. The name of a row is
\* carried for the history variable contrib only; the code scans the rating.
RECURSIVE SelectRatings(_, _)
SelectRatings(tbl, u) ==
    IF u > NumUsers - 1 THEN <<>>
    ELSE (IF HasRow(tbl, u) THEN <<[name |-> u, rating |-> tbl[u][1]]>> ELSE <<>>)
             \o SelectRatings(tbl, u + 1)

\* INSERT INTO users (username, rating) VALUES ... ON CONFLICT DO NOTHING
RECURSIVE insertBatch(_, _)
insertBatch(tbl, batch) ==
    IF batch = <<>> THEN tbl
    ELSE LET b == Head(batch)
         IN  insertBatch((IF HasRow(tbl, b.name) THEN tbl
                          ELSE [tbl EXCEPT ![b.name] = <<b.rating>>]),
                         Tail(batch))

\* the history of what the histogram got on behalf of user u
Credit(c, u, oldRating, newRating) ==
    [c EXCEPT ![u] = UpdateUserRating(@, oldRating, newRating)]

\* ------------------------------------------------- initial states

\* pc, the locals body.Username, body.NewRating, oldRating, and the response.
\* rival is history: another request committed a different rating for the same
\* user while this one was being served.
IdleReq ==
    [pc |-> "idle", username |-> 0, newRating |-> 0, oldRating |-> 0, resp |-> "",
     rival |-> FALSE]
\* a handler that has answered 200: its locals are gone
DoneReq == [IdleReq EXCEPT !.pc = "done", !.resp = "200 updated"]
\* a handler that has returned an error: resp names the c.JSON that answered
FailedReq(resp) == [IdleReq EXCEPT !.pc = "failed", !.resp = resp]
WarmStart == [pc |-> "start", count |-> 0, rows |-> <<>>, i |-> 0, batch |-> <<>>]

\* no GetLeaderboard or SearchUser call yet: rows is what is left of the query
\* result, resp the []UserResp built so far
IdleListing == [pc |-> "idle", rows |-> <<>>, resp |-> <<>>]

\* sync.RWMutex of a fresh RankManager, and no call running
FreeMutex == [writer |-> 0, readers |-> {}]
IdleWriter == [pc |-> "idle", oldRating |-> 0, newRating |-> 0]
IdleReader == [pc |-> "idle", rating |-> 0, r |-> 0, rank |-> 0, from |-> 0, upto |-> 0]
NoCalls ==
    /\ mu = FreeMutex
    /\ wr = [w \in Writers |-> IdleWriter]
    /\ rd = [k \in Readers |-> IdleReader]
    /\ versions = <<EmptyHistogram>>

\* the users table at process start: empty on a first start, or holding rows
\* of an earlier run for the first k usernames (the other names have no row)
InitTables ==
    {tbl \in [Names -> {<<>>} \cup {<<r>> : r \in InitRatings}] :
        \E k \in 0 .. NumUsers : \A u \in Names : HasRow(tbl, u) <=> u < k}

\* main(): the table users exists, InitRankManager() has run, the warm-up
\* goroutine is started and the routes are served.
Init ==
    /\ usersTbl \in InitTables
    /\ rowLock = [u \in Names |-> 0]
    /\ histogram = EmptyHistogram
    /\ req = [r \in Reqs |-> IdleReq]
    /\ warm = WarmStart
    /\ contrib = [u \in Names |-> EmptyHistogram]
    /\ commits = {}
    /\ deltas = {}
    /\ contended = {}
    /\ calls = <<>>
    /\ NoCalls
    /\ lst = IdleListing

\* ------------------------------------------- warm-up goroutine of main()

\* db.QueryRow(ctx, "SELECT count(*) FROM users").Scan(&count); if count > 0
WarmCount ==
    /\ warm.pc = "start"
    /\ LET n == CountRows(usersTbl)
       IN  warm' = [warm EXCEPT !.count = n,
                                !.pc = IF n > 0 THEN "query" ELSE "seeding"]
    /\ UNCHANGED <<usersTbl, rowLock, histogram, req, contrib, commits, deltas, contended, calls, lockVars, lst>>

\* rows, _ := db.Query(ctx, "SELECT rating FROM users")
WarmQuery ==
    /\ warm.pc = "query"
    /\ LET rs == SelectRatings(usersTbl, 0)
       IN  warm' = [warm EXCEPT !.rows = rs,
                                !.pc = IF rs = <<>> THEN "done" ELSE "loading"]
    /\ UNCHANGED <<usersTbl, rowLock, histogram, req, contrib, commits, deltas, contended, calls, lockVars, lst>>

\* for rows.Next() { rows.Scan(&r); GlobalRankManager.UpdateUserRating(-1, r) }
WarmLoadRow ==
    /\ warm.pc = "loading"
    /\ LET row == Head(warm.rows)
           rest == Tail(warm.rows)
       IN  /\ histogram' = UpdateUserRating(histogram, NoPrior, row.rating)
           /\ contrib' = Credit(contrib, row.name, NoPrior, row.rating)
           /\ warm' = [warm EXCEPT !.rows = rest,
                                   !.pc = IF rest = <<>> THEN "done" ELSE "loading"]
    /\ UNCHANGED <<usersTbl, rowLock, req, commits, deltas, contended, calls, lockVars, lst>>

\* SeedUsers, one turn of the loop up to the histogram update: append user_i
\* with r := 100 + (i % 4900), and insertBatch when the batch is full
SeedAppend ==
    /\ warm.pc = "seeding"
    /\ warm.i < NumUsers
    /\ LET r == SeedBase + (warm.i % SeedSpread)
           batch == Append(warm.batch, [name |-> warm.i, rating |-> r])
           full == Len(batch) >= BatchSize
       IN  /\ usersTbl' = IF full THEN insertBatch(usersTbl, batch) ELSE usersTbl
           /\ warm' = [warm EXCEPT !.batch = IF full THEN <<>> ELSE batch,
                                   !.pc = "seedhist"]
    /\ UNCHANGED <<rowLock, histogram, req, contrib, commits, deltas, contended, calls, lockVars, lst>>

\* SeedUsers: GlobalRankManager.UpdateUserRating(-1, r); i++
SeedHistogram ==
    /\ warm.pc = "seedhist"
    /\ LET r == SeedBase + (warm.i % SeedSpread)
       IN  /\ histogram' = UpdateUserRating(histogram, NoPrior, r)
           /\ contrib' = Credit(contrib, warm.i, NoPrior, r)
    /\ warm' = [warm EXCEPT !.i = @ + 1, !.pc = "seeding"]
    /\ UNCHANGED <<usersTbl, rowLock, req, commits, deltas, contended, calls, lockVars, lst>>

\* SeedUsers after the loop: if len(usernames) > 0 { insertBatch(...) }
SeedFlush ==
    /\ warm.pc = "seeding"
    /\ warm.i >= NumUsers
    /\ usersTbl' = IF Len(warm.batch) > 0 THEN insertBatch(usersTbl, warm.batch)
                   ELSE usersTbl
    /\ warm' = [warm EXCEPT !.batch = <<>>, !.pc = "done"]
    /\ UNCHANGED <<rowLock, histogram, req, contrib, commits, deltas, contended, calls, lockVars, lst>>

\* ------------------------------------------------- SimulateScoreUpdate

\* an update is between begin-transaction and its histogram mutation
InFlight(r) == req[r].pc \in {"begun", "locked", "written", "committed"}

\* requests are numbered in the order their transactions begin
NextToArrive(r) ==
    /\ req[r].pc = "idle"
    /\ IF r = 1 THEN TRUE ELSE req[r - 1].pc # "idle"

\* some other request for user u, at one of the places pcs, carries a new
\* rating other than nr
Rival(r, u, nr, pcs) ==
    \E q \in Reqs \ {r} :
        req[q].pc \in pcs /\ req[q].username = u /\ req[q].newRating # nr

\* c.BindJSON(&body) succeeds; tx, err := db.Begin(ctx) succeeds
Begin(r, u, nr) ==
    /\ NextToArrive(r)
    /\ req' = [req EXCEPT ![r] = [IdleReq EXCEPT !.pc = "begun", !.username = u,
                                                  !.newRating = nr,
                                                  !.rival = Rival(r, u, nr, {"committed"})]]
    /\ UNCHANGED <<usersTbl, rowLock, histogram, warm, contrib, commits, deltas, contended, calls, lockVars, lst>>

\* db.Begin fails: 500 "failed to start transaction"
BeginFail(r) ==
    /\ NextToArrive(r)
    /\ req' = [req EXCEPT ![r] = FailedReq("500 failed to start transaction")]
    /\ UNCHANGED <<usersTbl, rowLock, histogram, warm, contrib, commits, deltas, contended, calls, lockVars, lst>>

\* a locked read that does not wait for the row lock
LockedRead_noWait(r) ==
    /\ req[r].pc = "begun"
    /\ HasRow(usersTbl, req[r].username)
    /\ rowLock' = [rowLock EXCEPT ![req[r].username] = r]
    /\ req' = [req EXCEPT ![r].pc = "locked",
                          ![r].oldRating = usersTbl[req[r].username][1]]
    /\ UNCHANGED <<usersTbl, histogram, warm, contrib, commits, deltas, contended, calls, lockVars, lst>>

\* SELECT rating FROM users WHERE username=$1 FOR UPDATE: waits while another
\* transaction holds the row lock, then takes it and reads the committed rating
LockedRead(r) ==
    /\ req[r].pc = "begun"
    /\ HasRow(usersTbl, req[r].username)
    /\ rowLock[req[r].username] = 0
    /\ rowLock' = [rowLock EXCEPT ![req[r].username] = r]
    /\ req' = [req EXCEPT ![r].pc = "locked",
                          ![r].oldRating = usersTbl[req[r].username][1]]
    /\ UNCHANGED <<usersTbl, histogram, warm, contrib, commits, deltas, contended, calls, lockVars, lst>>

\* the locked read returns an error (no such row, or the statement fails while
\* it waits): 404 "user not found", and the deferred tx.Rollback
LockedReadFail(r) ==
    /\ req[r].pc = "begun"
    /\ req' = [req EXCEPT ![r] = FailedReq("404 user not found")]
    /\ UNCHANGED <<usersTbl, rowLock, histogram, warm, contrib, commits, deltas, contended, calls, lockVars, lst>>

\* tx.Exec(ctx, "UPDATE users SET rating=$1 WHERE username=$2", ...) succeeds:
\* the new rating is written inside the transaction, not yet committed
Write(r) ==
    /\ req[r].pc = "locked"
    /\ req' = [req EXCEPT ![r].pc = "written"]
    /\ UNCHANGED <<usersTbl, rowLock, histogram, warm, contrib, commits, deltas, contended, calls, lockVars, lst>>

\* the deferred tx.Rollback(ctx) of a handler that returns before its commit:
\* the uncommitted write is dropped and the row lock released
Rollback_persists(r, resp) ==
    /\ rowLock' = [u \in Names |-> IF rowLock[u] = r THEN 0 ELSE rowLock[u]]
    /\ req' = [req EXCEPT ![r] = FailedReq(resp)]
    /\ usersTbl' = [usersTbl EXCEPT ![req[r].username] = <<req[r].newRating>>]
    /\ UNCHANGED <<histogram, warm, contrib, commits, deltas, contended, calls, lockVars, lst>>

\* a rollback that leaves the row lock with the failed request
Rollback_keepsLock(r, resp) ==
    /\ req' = [req EXCEPT ![r] = FailedReq(resp)]
    /\ UNCHANGED <<usersTbl, rowLock, histogram, warm, contrib, commits, deltas, contended, calls,
                   lockVars, lst>>

Rollback(r, resp) ==
    /\ rowLock' = [u \in Names |-> IF rowLock[u] = r THEN 0 ELSE rowLock[u]]
    /\ req' = [req EXCEPT ![r] = FailedReq(resp)]
    /\ UNCHANGED <<usersTbl, histogram, warm, contrib, commits, deltas, contended, calls, lockVars, lst>>

\* tx.Exec fails: 500, return
WriteFail(r) ==
    /\ req[r].pc = "locked"
    /\ Rollback(r, "500 update failed")

\* a commit that leaves the row lock held until the handler returns
Commit_keepsLock(r) ==
    /\ req[r].pc = "written"
    /\ usersTbl' = [usersTbl EXCEPT ![req[r].username] = <<req[r].newRating>>]
    /\ req' = [req EXCEPT ![r].pc = "committed"]
    /\ commits' = commits \cup {[user |-> req[r].username,
                                 old |-> req[r].oldRating, new |-> req[r].newRating]}
    /\ UNCHANGED <<rowLock, histogram, warm, contrib, deltas, contended, calls, lockVars, lst>>

\* tx.Commit(ctx) succeeds: the new rating is the committed one, the row lock
\* is released
Commit(r) ==
    /\ req[r].pc = "written"
    /\ usersTbl' = [usersTbl EXCEPT ![req[r].username] = <<req[r].newRating>>]
    /\ rowLock' = [rowLock EXCEPT ![req[r].username] = 0]
    /\ req' = [q \in Reqs |->
                   IF q = r THEN [req[r] EXCEPT !.pc = "committed"]
                   ELSE IF /\ req[q].pc = "begun"
                           /\ req[q].username = req[r].username
                           /\ req[q].newRating # req[r].newRating
                        THEN [req[q] EXCEPT !.rival = TRUE]
                        ELSE req[q]]
    /\ commits' = commits \cup {[user |-> req[r].username,
                                 old |-> req[r].oldRating, new |-> req[r].newRating]}
    /\ contended' = IF req[r].rival THEN contended \cup {req[r].username} ELSE contended
    /\ UNCHANGED <<histogram, warm, contrib, deltas, calls, lockVars, lst>>

\* tx.Commit fails: 500 "failed to commit transaction", return
CommitFail(r) ==
    /\ req[r].pc = "written"
    /\ Rollback(r, "500 failed to commit transaction")

\* the place of the handler where it calls UpdateUserRating
MayApply_beforeCommit(r) == req[r].pc \in {"written", "committed"}

MayApply(r) == req[r].pc = "committed"

\* a handler that answers 200 after its commit without touching the histogram
Apply_ackOnly(r) ==
    /\ MayApply(r)
    /\ req' = [req EXCEPT ![r] = DoneReq]
    /\ UNCHANGED <<usersTbl, rowLock, histogram, warm, contrib, commits, deltas, contended,
                   calls, lockVars, lst>>

\* a handler that calls UpdateUserRating twice
Apply_twice(r) ==
    /\ MayApply(r)
    /\ histogram' = UpdateUserRating(UpdateUserRating(histogram, req[r].oldRating,
                                                       req[r].newRating),
                                      req[r].oldRating, req[r].newRating)
    /\ contrib' = Credit(Credit(contrib, req[r].username, req[r].oldRating, req[r].newRating),
                         req[r].username, req[r].oldRating, req[r].newRating)
    /\ deltas' = deltas \cup {[user |-> req[r].username,
                               old |-> req[r].oldRating, new |-> req[r].newRating]}
    /\ req' = [req EXCEPT ![r] = DoneReq]
    /\ UNCHANGED <<usersTbl, rowLock, warm, commits, contended, calls, lockVars, lst>>

\* GlobalRankManager.UpdateUserRating(oldRating, body.NewRating); 200 "updated"
Apply(r) ==
    /\ MayApply(r)
    /\ histogram' = UpdateUserRating(histogram, req[r].oldRating, req[r].newRating)
    /\ contrib' = Credit(contrib, req[r].username, req[r].oldRating, req[r].newRating)
    /\ deltas' = deltas \cup {[user |-> req[r].username,
                               old |-> req[r].oldRating, new |-> req[r].newRating]}
    /\ req' = [req EXCEPT ![r] = DoneReq]
    /\ UNCHANGED <<usersTbl, rowLock, warm, commits, contended, calls, lockVars, lst>>

WarmUp ==
    \/ WarmCount
    \/ WarmQuery
    \/ WarmLoadRow
    \/ SeedAppend
    \/ SeedHistogram
    \/ SeedFlush

Handler(r) ==
    \/ \E u \in Names, nr \in NewRatings : Begin(r, u, nr)
    \/ BeginFail(r)
    \/ LockedRead(r)
    \/ LockedReadFail(r)
    \/ Write(r)
    \/ WriteFail(r)
    \/ Commit(r)
    \/ CommitFail(r)
    \/ Apply(r)

Next == WarmUp \/ \E r \in Reqs : Handler(r)

Spec == Init /\ [][Next]_vars

\* Each handler runs in its own goroutine and goes on whenever it can: the
\* row lock is granted once it is free, a locked read of a missing row returns
\* its error, the UPDATE and the commit return (with or without an error), and
\* the handler that has committed reaches its UpdateUserRating call. The
\* warm-up goroutine goes on as well.
Fairness ==
    /\ WF_vars(WarmUp)
    /\ \A r \in Reqs :
           /\ WF_vars(LockedRead(r))
           /\ WF_vars(LockedReadFail(r) /\ ~HasRow(usersTbl, req[r].username))
           /\ WF_vars(Write(r) \/ WriteFail(r))
           /\ WF_vars(Commit(r) \/ CommitFail(r))
           /\ WF_vars(Apply(r))

FairSpec == Spec /\ Fairness

\* ------------------------------------------ GetLeaderboard, SearchUser

\* SELECT username, rating FROM users ORDER BY rating DESC LIMIT 50 (the
\* table of the model has fewer than 50 rows)
TopRows(tbl) == SortSeq(SelectRatings(tbl, 0), LAMBDA a, b : a.rating > b.rating)

\* SELECT username, rating FROM users WHERE username ILIKE $1 ORDER BY
\* length(username), username LIMIT 50, for a prefix every username has
FoundRows(tbl) == SelectRatings(tbl, 0)

\* GetLeaderboard: rows, err := db.Query(...) succeeds
LeaderboardQuery ==
    /\ lst.pc = "idle"
    /\ lst' = [lst EXCEPT !.pc = "ranking", !.rows = TopRows(usersTbl)]
    /\ UNCHANGED <<usersTbl, rowLock, histogram, req, warm, contrib, commits, deltas, contended,
                   calls, lockVars>>

\* SearchUser: rows, err := db.Query(ctx, sql, query+"%") succeeds
SearchQuery ==
    /\ lst.pc = "idle"
    /\ lst' = [lst EXCEPT !.pc = "ranking", !.rows = FoundRows(usersTbl)]
    /\ UNCHANGED <<usersTbl, rowLock, histogram, req, warm, contrib, commits, deltas, contended,
                   calls, lockVars>>

\* the query fails: 500, return
ListQueryFail ==
    /\ lst.pc = "idle"
    /\ lst' = [lst EXCEPT !.pc = "failed"]
    /\ UNCHANGED <<usersTbl, rowLock, histogram, req, warm, contrib, commits, deltas, contended,
                   calls, lockVars>>

\* one turn of for rows.Next(): rows.Scan(&u, &r);
\* rank := GlobalRankManager.GetRank(r); resp = append(resp, UserResp{...})
ListRankRow ==
    /\ lst.pc = "ranking"
    /\ lst.rows # <<>>
    /\ LET row == Head(lst.rows)
       IN  lst' = [lst EXCEPT
                      !.rows = Tail(lst.rows),
                      !.resp = Append(lst.resp, [username |-> row.name, rating |-> row.rating,
                                                 rank |-> GetRank(histogram, row.rating)])]
    /\ UNCHANGED <<usersTbl, rowLock, histogram, req, warm, contrib, commits, deltas, contended,
                   calls, lockVars>>

\* rows.Next() is false: c.JSON(200, resp)
ListRespond ==
    /\ lst.pc = "ranking"
    /\ lst.rows = <<>>
    /\ lst' = [lst EXCEPT !.pc = "returned"]
    /\ UNCHANGED <<usersTbl, rowLock, histogram, req, warm, contrib, commits, deltas, contended,
                   calls, lockVars>>

Listing ==
    \/ LeaderboardQuery
    \/ SearchQuery
    \/ ListQueryFail
    \/ ListRankRow
    \/ ListRespond

\* the routes /leaderboard and /search served beside /simulate and warm-up
ListNext == Next \/ Listing

ListSpec == Init /\ [][ListNext]_vars

\* ------------------------------------- RankManager called directly

\* the ratings slices handed to BulkLoad
Batches == UNION {[1 .. n -> LoadRatings] : n \in 0 .. MaxBatch}

\* a fresh RankManager and nothing else running
TableInit ==
    /\ usersTbl = [u \in Names |-> <<>>]
    /\ rowLock = [u \in Names |-> 0]
    /\ histogram = EmptyHistogram
    /\ req = [r \in Reqs |-> IdleReq]
    /\ warm = WarmStart
    /\ contrib = [u \in Names |-> EmptyHistogram]
    /\ commits = {}
    /\ deltas = {}
    /\ contended = {}
    /\ calls = <<>>
    /\ NoCalls
    /\ lst = IdleListing

\* rm.BulkLoad(ratings)
CallBulkLoad(ratings) ==
    /\ Len(calls) < MaxCalls
    /\ histogram' = BulkLoad(histogram, ratings)
    /\ calls' = Append(calls, <<"BulkLoad", ratings>>)
    /\ UNCHANGED <<usersTbl, rowLock, req, warm, contrib, commits, deltas, contended, lockVars, lst>>

\* rm.UpdateUserRating(oldRating, newRating)
CallUpdateUserRating(oldRating, newRating) ==
    /\ Len(calls) < MaxCalls
    /\ histogram' = UpdateUserRating(histogram, oldRating, newRating)
    /\ calls' = Append(calls, <<"UpdateUserRating", oldRating, newRating>>)
    /\ UNCHANGED <<usersTbl, rowLock, req, warm, contrib, commits, deltas, contended, lockVars, lst>>

TableNext ==
    \/ \E ratings \in Batches : CallBulkLoad(ratings)
    \/ \E o \in DeltaRatings, n \in DeltaRatings : CallUpdateUserRating(o, n)

TableSpec == TableInit /\ [][TableNext]_vars

\* --------------------------- GetRank and UpdateUserRating under rm.mu

\* ratings asked of the GetRank calls of LockSpec: below the floor of GetRank,
\* inside the array, above it
ScanRatings == {-7, 150, 5001}
\* (oldRating, newRating) of the UpdateUserRating calls of LockSpec: the
\* "just increment" of warm-up, a move between two counted ratings, an update
\* to the same rating, and one with both ratings outside the counted range
WriterCalls == {<<NoPrior, 100>>, <<100, 300>>, <<100, 100>>, <<50, 5001>>}

\* what the calls on the RankManager leave alone
storeVars == <<usersTbl, rowLock, req, warm, contrib, commits, deltas, contended, calls, lst>>

\* a fresh RankManager, the table users and the handlers at rest
LockInit == TableInit

\* calls are numbered in the order they start
NextCall(pcs, i) ==
    /\ pcs[i].pc = "idle"
    /\ IF i = 1 THEN TRUE ELSE pcs[i - 1].pc # "idle"

\* rm.mu.Lock() returns: nobody holds the mutex in either mode
MayLock == mu.writer = 0 /\ mu.readers = {}

\* rm.mu.RLock() returns: nobody holds the mutex exclusively
MayRLock_ignoresWriter == TRUE

MayRLock == mu.writer = 0

\* UpdateUserRating(oldRating, newRating): rm.mu.Lock()
WLock(w, oldRating, newRating) ==
    /\ NextCall(wr, w)
    /\ MayLock
    /\ mu' = [mu EXCEPT !.writer = w]
    /\ wr' = [wr EXCEPT ![w] = [pc |-> "dec", oldRating |-> oldRating,
                                newRating |-> newRating]]
    /\ UNCHANGED <<histogram, rd, versions, storeVars>>

\* if oldRating >= 100 && oldRating <= 5000 { rm.histogram[oldRating]-- }
WDecrement(w) ==
    /\ wr[w].pc = "dec"
    /\ histogram' = Decrement(histogram, wr[w].oldRating)
    /\ wr' = [wr EXCEPT ![w].pc = "inc"]
    /\ UNCHANGED <<mu, rd, versions, storeVars>>

\* if newRating >= 100 && newRating <= 5000 { rm.histogram[newRating]++ }
WIncrement(w) ==
    /\ wr[w].pc = "inc"
    /\ histogram' = Increment(histogram, wr[w].newRating)
    /\ wr' = [wr EXCEPT ![w].pc = "unlock"]
    /\ UNCHANGED <<mu, rd, versions, storeVars>>

\* defer rm.mu.Unlock(); the call returns
WUnlock(w) ==
    /\ wr[w].pc = "unlock"
    /\ mu' = [mu EXCEPT !.writer = 0]
    /\ wr' = [wr EXCEPT ![w] = [IdleWriter EXCEPT !.pc = "returned"]]
    /\ versions' = Append(versions, histogram)
    /\ UNCHANGED <<histogram, rd, storeVars>>

\* GetRank(rating): if rating > 5000 { return 1 }, the mutex is not taken
RTop(k, rating) ==
    /\ NextCall(rd, k)
    /\ rating > MaxRating
    /\ rd' = [rd EXCEPT ![k] = [IdleReader EXCEPT !.pc = "returned", !.rating = rating,
                                                  !.rank = 1,
                                                  !.from = Len(versions),
                                                  !.upto = Len(versions)]]
    /\ UNCHANGED <<histogram, mu, wr, versions, storeVars>>

\* GetRank(rating): if rating < 0 { rating = 0 }; rm.mu.RLock(); rank = 1;
\* r := rating + 1
RLock(k, rating) ==
    /\ NextCall(rd, k)
    /\ rating <= MaxRating
    /\ MayRLock
    /\ mu' = [mu EXCEPT !.readers = @ \cup {k}]
    /\ rd' = [rd EXCEPT ![k] = [IdleReader EXCEPT
                  !.pc = "scan", !.rating = rating,
                  !.r = (IF rating < RankFloor THEN RankFloor ELSE rating) + 1,
                  !.rank = 1,
                  !.from = Len(versions)]]
    /\ UNCHANGED <<histogram, wr, versions, storeVars>>

\* one turn of the loop on the next addressed slot (the slots between hold 0):
\* rank += int64(rm.histogram[r]); or the loop ends, r > 5000
RScan(k) ==
    /\ rd[k].pc = "scan"
    /\ LET n == NextSlot(rd[k].r)
       IN  rd' = IF n > MaxRating
                 THEN [rd EXCEPT ![k].pc = "unlock"]
                 ELSE [rd EXCEPT ![k].r = n + 1, ![k].rank = @ + histogram[n]]
    /\ UNCHANGED <<histogram, mu, wr, versions, storeVars>>

\* defer rm.mu.RUnlock(); return rank
RUnlock(k) ==
    /\ rd[k].pc = "unlock"
    /\ mu' = [mu EXCEPT !.readers = @ \ {k}]
    /\ rd' = [rd EXCEPT ![k].pc = "returned", ![k].upto = Len(versions)]
    /\ UNCHANGED <<histogram, wr, versions, storeVars>>

Writer(w) ==
    \/ \E c \in WriterCalls : WLock(w, c[1], c[2])
    \/ WDecrement(w)
    \/ WIncrement(w)
    \/ WUnlock(w)

Reader(k) ==
    \/ \E q \in ScanRatings : RTop(k, q)
    \/ \E q \in ScanRatings : RLock(k, q)
    \/ RScan(k)
    \/ RUnlock(k)

LockNext == (\E w \in Writers : Writer(w)) \/ (\E k \in Readers : Reader(k))

LockSpec == LockInit /\ [][LockNext]_vars

\* ================================================================ claims

Score(u) == usersTbl[u][1]
Present == {u \in Names : HasRow(usersTbl, u)}

\* the number of rows of users whose committed rating is s
StoreCount(s) == Cardinality({u \in Present : Score(u) = s})

\* warm-up has finished and no update is between begin-transaction and its
\* histogram mutation
Quiescent == warm.pc = "done" /\ \A r \in Reqs : ~InFlight(r)

RECURSIVE SumOver(_, _)
SumOver(h, S) ==
    IF S = {} THEN 0
    ELSE LET s == CHOOSE x \in S : TRUE IN h[s] + SumOver(h, S \ {s})

\* C1: in every reachable state no slot of the histogram is negative.
C1_NoNegativeSlot == \A s \in Slots : histogram[s] >= 0

\* C2: once warm-up has finished, at every quiescent point each slot of the
\* counted range [100, 5000] holds the number of rows whose committed rating
\* is that slot.
C2_QuiescentSlotsMatchStore ==
    Quiescent => \A s \in Slots : InRange(s) => histogram[s] = StoreCount(s)

\* warm-up and every update have finished, and two updates of user u that
\* were served at the same time committed different new ratings
DoneWithUpdatesOf(u) ==
    /\ Quiescent
    /\ u \in contended

\* C3: once all the updates of one user have finished, the histogram holds
\* exactly one count for that user, in the slot of the rating committed last,
\* and none in any other slot.
C3_OneCountAtLastCommitted ==
    \A u \in Names :
        (DoneWithUpdatesOf(u) /\ InRange(Score(u))) =>
            \A s \in Slots : contrib[u][s] = IF s = Score(u) THEN 1 ELSE 0

C5_FailedUpdateChangesNothing ==
    [][\A r \in Reqs :
          (req'[r].pc # req[r].pc /\ req'[r].pc \in {"begun", "locked", "written", "failed"}) =>
              /\ histogram' = histogram
              /\ usersTbl' = usersTbl
              /\ (req'[r].pc = "failed" => \A u \in Names : rowLock'[u] # r)]_vars

C5_Witness ==
    \E r \in Reqs :
        /\ req[r].resp = "500 failed to commit transaction"
        /\ \E q \in Reqs : req[q].resp = "404 user not found"

\* C6: GetRank returns a value >= 1 for every rating, in every reachable state.
C6_RankAtLeastOne == \A q \in QueryScores : GetRank(histogram, q) >= 1

\* C7: for all ratings a > b, GetRank(a) <= GetRank(b), in every reachable state.
C7_RankMonotone ==
    \A a, b \in QueryScores :
        a > b => GetRank(histogram, a) <= GetRank(histogram, b)

\* C8: at every quiescent point after warm-up the rank of each user's rating
\* is 1 plus the number of rows with a strictly greater committed rating.
C8_RankIsOnePlusGreater ==
    Quiescent =>
        \A u \in Present :
            GetRank(histogram, Score(u))
                = 1 + Cardinality({v \in Present : Score(v) > Score(u)})

\* the reference value of rank: 1 above the ceiling, else 1 plus the counts of
\* the slots in (max(score, 0), 5000]
RefRank(h, score) ==
    IF score > 5000 THEN 1
    ELSE 1 + SumOver(h, {s \in Slots : s > score /\ s > 0 /\ s <= 5000})

ScenarioLoad == <<"BulkLoad", <<100, 100, 200>> >>
ScenarioDelta == <<"UpdateUserRating", 100, 300>>

\* C9 as stated: GetRank equals the reference value for every rating; from an
\* empty histogram BulkLoad([100,100,200]) gives rank(100) = 2, rank(200) = 1,
\* rank(0) = 3, and UpdateUserRating(100, 300) after it gives rank(300) = 1,
\* rank(100) = 2.
C9_RankScenarioAsStated ==
    /\ \A q \in QueryScores : GetRank(histogram, q) = RefRank(histogram, q)
    /\ calls = <<ScenarioLoad>> =>
           /\ GetRank(histogram, 100) = 2
           /\ GetRank(histogram, 200) = 1
           /\ GetRank(histogram, 0) = 3
    /\ calls = <<ScenarioLoad, ScenarioDelta>> =>
           /\ GetRank(histogram, 300) = 1
           /\ GetRank(histogram, 100) = 2

\* C9 amended: GetRank equals the reference value for every rating; from an
\* empty histogram BulkLoad([100,100,200]) gives rank(100) = 2, rank(200) = 1,
\* rank(0) = 4 (all three users are above 0), and UpdateUserRating(100, 300)
\* after it gives rank(300) = 1, rank(100) = 3 (the users at 200 and 300 are
\* above 100).
C9_RankScenario ==
    /\ \A q \in QueryScores : GetRank(histogram, q) = RefRank(histogram, q)
    /\ calls = <<ScenarioLoad>> =>
           /\ GetRank(histogram, 100) = 2
           /\ GetRank(histogram, 200) = 1
           /\ GetRank(histogram, 0) = 4
    /\ calls = <<ScenarioLoad, ScenarioDelta>> =>
           /\ GetRank(histogram, 300) = 1
           /\ GetRank(histogram, 100) = 3

C9_Witness ==
    /\ calls = <<ScenarioLoad, ScenarioDelta>>
    /\ histogram[100] = 1 /\ histogram[200] = 1 /\ histogram[300] = 1

\* C10: at any quiescent point the sum of all slots equals the number of rows
\* whose committed rating lies in the counted range [100, 5000].
C10_SumIsTrackedCount ==
    Quiescent =>
        SumOver(histogram, Slots) = Cardinality({u \in Present : InRange(Score(u))})

\* C14: a GetRank call that ran while UpdateUserRating calls were made returns
\* the rank of its rating on the histogram as it was after one of the finished
\* calls, the ones finished when it took the mutex up to the ones finished when
\* it released it: never a sum over a histogram with only the decrement or
\* only the increment of a call applied.
C14_DeltaAtomicToReaders ==
    \A k \in Readers :
        rd[k].pc = "returned" =>
            \E j \in rd[k].from .. rd[k].upto :
                rd[k].rank = GetRank(versions[j], rd[k].rating)

\* a GetRank(-7) that returned 2 after two UpdateUserRating calls, the second
\* moving the one counted user from 100 to 300
C14_Witness ==
    /\ Len(versions) = 3
    /\ versions[2][100] = 1
    /\ versions[3][100] = 0 /\ versions[3][300] = 1
    /\ \E k \in Readers : rd[k].pc = "returned" /\ rd[k].rating = -7 /\ rd[k].rank = 2

\* the warm-up goroutine is between its read of the table (the SELECT rating
\* of a database that holds users, the count of an empty one) and the last of
\* its histogram increments
WarmLoading == warm.pc \in {"loading", "seeding", "seedhist"}

\* C11: warm-up is isolated from traffic: no step of SimulateScoreUpdate
\* applies a delta to the histogram while the warm-up goroutine is between
\* its read of the ratings and the end of its increments.
C11_WarmUpIsolated ==
    [][(\E r \in Reqs : req[r].pc = "committed" /\ req'[r].pc = "done") => ~WarmLoading]_vars

\* C12: an UpdateUserRating call whose oldRating is in range and whose slot
\* holds zero does not drive the slot below zero: in every step that makes
\* such a call the slot of oldRating is not negative afterwards.
C12_NoDecrementBelowZero ==
    [][(/\ Len(calls') = Len(calls) + 1
        /\ calls'[Len(calls')][1] = "UpdateUserRating"
        /\ InRange(calls'[Len(calls')][2])
        /\ histogram[calls'[Len(calls')][2]] = 0)
          => histogram'[calls'[Len(calls')][2]] >= 0]_vars

\* the ratings a call may be given: every rating of the model except the
\* in-range ones the model's histogram has no slot for
CallRatings == {q \in QueryScores : InRange(q) => q \in Slots}

\* C13: UpdateUserRating(old, new) followed at once by UpdateUserRating(new,
\* old) leaves every slot as it was, for every histogram and every pair of
\* ratings, in range or not; a run of exactly these two calls on a fresh
\* RankManager ends with the empty histogram.
C13_RoundTrip ==
    /\ \A o, n \in CallRatings :
           UpdateUserRating(UpdateUserRating(histogram, o, n), n, o) = histogram
    /\ (/\ Len(calls) = 2
        /\ calls[1][1] = "UpdateUserRating"
        /\ calls[2] = <<"UpdateUserRating", calls[1][3], calls[1][2]>>)
          => histogram = EmptyHistogram

\* UpdateUserRating(100, 300) and then UpdateUserRating(300, 100)
C13_Witness ==
    /\ calls = << <<"UpdateUserRating", 100, 300>>, <<"UpdateUserRating", 300, 100>> >>
    /\ histogram = EmptyHistogram

\* the write of request r: whose rating, the rating read, the rating written
WriteOf(r) == [user |-> req[r].username, old |-> req[r].oldRating, new |-> req[r].newRating]

\* the step in which request r mutates the histogram and answers 200
Applies(r) == req[r].pc # "done" /\ req'[r].pc = "done"

\* C15: every request whose transaction has committed eventually applies its
\* delta to the histogram, and exactly once: the only step a committed request
\* takes is the one that applies UpdateUserRating(oldRating, newRating) and
\* answers, and a request that has answered takes no further step.
C15_CommittedEventuallyApplied ==
    /\ \A r \in Reqs : (req[r].pc = "committed") ~> (req[r].pc = "done")
    /\ [][\A r \in Reqs :
             /\ (req[r].pc = "committed" /\ req'[r].pc # "committed") =>
                    /\ req'[r].pc = "done"
                    /\ histogram' = UpdateUserRating(histogram, req[r].oldRating,
                                                     req[r].newRating)
             /\ req[r].pc = "done" => req'[r] = req[r]]_vars
    /\ [][histogram' # histogram => (warm' # warm \/ \E r \in Reqs : Applies(r))]_vars

\* one request has applied its delta and answered while another, committed,
\* has yet to apply its own
C15_Witness ==
    \E r, q \in Reqs :
        /\ req[r].pc = "done"
        /\ req[q].pc = "committed"
        /\ req[q].oldRating # req[q].newRating /\ InRange(req[q].newRating)

\* the committed writes whose handler has not yet called UpdateUserRating
Pending == {WriteOf(r) : r \in {q \in Reqs : req[q].pc = "committed"}}

C19_SerializedAtRowLock ==
    /\ [](\A r \in Reqs :
             req[r].pc \in {"locked", "written"} =>
                 /\ rowLock[req[r].username] = r
                 /\ req[r].oldRating = Score(req[r].username))
    /\ [][\A r \in Reqs :
             (req[r].pc = "written" /\ req'[r].pc = "committed") =>
                 /\ req[r].oldRating = Score(req[r].username)
                 /\ usersTbl'[req[r].username] = <<req[r].newRating>>]_vars

\* a request that was waiting while another committed a different rating for
\* the same user has read that rating as its oldRating
C19_Witness ==
    \E r, q \in Reqs :
        /\ r # q
        /\ req[q].pc = "committed" /\ req[q].oldRating # req[q].newRating
        /\ req[r].pc = "written" /\ req[r].rival
        /\ req[r].username = req[q].username
        /\ req[r].oldRating = req[q].newRating

\* GetRank answers from the histogram for this rating: it is neither above
\* the ceiling (rank 1) nor below the floor (clamped)
RankInRange(rating) == ~(rating > MaxRating) /\ ~(rating < RankFloor)

\* C20: one rating range serves all operations: every rating GetRank treats
\* as in range is counted by UpdateUserRating and by BulkLoad, and a rating
\* below the counted floor ranks as a rating at that floor does.
C20_OneScoreRange ==
    /\ \A s \in Slots :
           RankInRange(s) =>
               /\ UpdateUserRating(histogram, NoPrior, s)[s] = histogram[s] + 1
               /\ BulkLoad(histogram, <<s>>)[s] = histogram[s] + 1
    /\ \A q \in QueryScores :
           q < MinRating => GetRank(histogram, q) = GetRank(histogram, MinRating)

\* the committed writes not yet applied to the histogram that take a count
\* away from slot s, and those that add one to it
PendingFrom(s) == Cardinality({r \in Reqs : req[r].pc = "committed" /\ req[r].oldRating = s})
PendingTo(s) == Cardinality({r \in Reqs : req[r].pc = "committed" /\ req[r].newRating = s})

\* C22: after warm-up, in every reachable state each slot s of the counted
\* range holds the number of rows whose committed rating is s, plus the number
\* of committed and not yet applied writes whose oldRating is s, minus the
\* number of those whose newRating is s.
C22_StalenessBounded ==
    warm.pc = "done" =>
        \A s \in Slots :
            InRange(s) => histogram[s] = StoreCount(s) + PendingFrom(s) - PendingTo(s)

\* for each rating of the slice in turn: UpdateUserRating(-1, rating), as the
\* warm-up loop of main() does
RECURSIVE LoadOneByOne(_, _)
LoadOneByOne(h, ratings) ==
    IF ratings = <<>> THEN h
    ELSE LoadOneByOne(UpdateUserRating(h, NoPrior, Head(ratings)), Tail(ratings))

\* ratings below the counted range, inside it and above it
ProbeRatings == {50, 100, 200, 5001}

\* what one occurrence of rating a adds to slot s
CountedAt(a, s) == IF a = s /\ s >= 100 /\ s <= 5000 THEN 1 ELSE 0

\* C23: on every histogram, BulkLoad(ratings) gives the histogram that
\* UpdateUserRating(-1, s) for each s of ratings in turn gives: each slot of
\* the counted range gains one count per occurrence of its rating, ratings out
\* of range add nothing, and the order of the slice does not matter. A run
\* that makes the one-by-one calls ends where the BulkLoad of a fresh
\* RankManager ends.
C23_BulkLoadIsRepeatedDelta ==
    /\ \A a, b \in ProbeRatings :
           LET loaded == BulkLoad(histogram, <<a, b>>)
           IN  /\ loaded = LoadOneByOne(histogram, <<a, b>>)
               /\ loaded = BulkLoad(histogram, <<b, a>>)
               /\ loaded = [s \in Slots |-> histogram[s] + CountedAt(a, s) + CountedAt(b, s)]
               /\ BulkLoad(histogram, <<a>>) = UpdateUserRating(histogram, NoPrior, a)
    /\ (/\ Len(calls) = 2
        /\ \A i \in 1 .. 2 : calls[i][1] = "UpdateUserRating" /\ calls[i][2] = NoPrior)
          => histogram = BulkLoad(EmptyHistogram, <<calls[1][3], calls[2][3]>>)

\* UpdateUserRating(-1, 100) and UpdateUserRating(-1, 300) were called on a
\* fresh RankManager
C23_Witness ==
    /\ calls = << <<"UpdateUserRating", NoPrior, 100>>, <<"UpdateUserRating", NoPrior, 300>> >>
    /\ histogram[100] = 1 /\ histogram[300] = 1

\* what UpdateUserRating(oldRating, newRating) adds to slot s: one for the new
\* rating and minus one for the old, each only inside [100, 5000]
NetChange(s, oldRating, newRating) ==
    (IF s = newRating /\ newRating >= 100 /\ newRating <= 5000 THEN 1 ELSE 0)
        - (IF s = oldRating /\ oldRating >= 100 /\ oldRating <= 5000 THEN 1 ELSE 0)

\* the histogram when the UpdateUserRating call now running took the mutex
BeforeCall == versions[Len(versions)]

\* C24: a finished UpdateUserRating(old, new) has changed slot old by -1 and
\* slot new by +1 (nothing when old = new, nothing when both are out of range)
\* and no other slot; no step of GetRank changes a slot; the slots below 100
\* are zero in every reachable state.
C24_Frame ==
    /\ [][\A w \in Writers :
             (wr[w].pc = "unlock" /\ wr'[w].pc = "returned") =>
                 \A s \in Slots :
                     histogram[s] = BeforeCall[s]
                                      + NetChange(s, wr[w].oldRating, wr[w].newRating)]_vars
    /\ [][rd' # rd => histogram' = histogram]_vars
    /\ [](\A s \in Slots : s < 100 => histogram[s] = 0)

\* a call that changed no slot (old = new, or both ratings out of range) and
\* then UpdateUserRating(100, 300) have returned, and a GetRank call has
\* scanned the histogram
C24_Witness ==
    /\ Len(versions) = 3
    /\ versions[2] = EmptyHistogram
    /\ versions[3][100] = -1 /\ versions[3][300] = 1
    /\ \E k \in Readers : rd[k].pc = "returned" /\ rd[k].rating = -7

\* C21: two rows of one leaderboard or search response that carry the same
\* rating carry the same rank, whatever updates ran while the response was
\* being built.
C21_TiesShareRank ==
    \A i, j \in 1 .. Len(lst.resp) :
        lst.resp[i].rating = lst.resp[j].rating => lst.resp[i].rank = lst.resp[j].rank

====
